---------------------------- MODULE Spec2Model ----------------------------
(***************************************************************************)
(* Model of the buglit browser client (React): the issue-triage state      *)
(* machine of the App component in its front-end variants.                  *)
(*                                                                         *)
(*   "subset"     src/src/App.jsx 27-298    (importantIssues, issuesLoading)*)
(*   "order"      src/src/App.jsx 327-563   (sortIssues)                    *)
(*   "categoryA"  src/unnamed/part_000      (categorizeIssues)              *)
(*   "categoryB"  src/unnamed/part_002 96-393 (categorizeIssues)            *)
(*   "flat"       src/unnamed/part_001 5-186 (no triage call)               *)
(*                                                                         *)
(* A handler that awaits a fetch is split at its await points: the          *)
(* synchronous prefix is one action, every continuation is one action.      *)
(***************************************************************************)
EXTENDS Integers, Sequences, FiniteSets, TLC

VARIABLES
    variant,            \* which App variant is running (fixed by Init)
    selectedRepo,       \* useState(null)
    issues,             \* useState([])
    importantIssues,    \* useState([])                         (subset)
    categorizedIssues,  \* useState({Major: [], Minor: [], Bug: []}) (category)
    selectedIssue,      \* useState(null)
    selectedCategory,   \* useState(null)                       (category)
    issuesLoading,      \* useState(false)                      (subset)
    issueSearch,        \* useState('')                         (subset)
    tasks,              \* suspended handleRepoClick / handleRepoSelect invocations
    nextId,             \* number of handleRepoClick invocations so far, plus one
    triageCalls,        \* history: the Triage Service calls issued, [id, titles]
    failed,             \* history: the calls that failed, [id, kind]
    ev,                 \* history: the last handler or continuation that ran
    aiTextBox,          \* useState('')
    pyOutput,           \* useState('')
    isThinking,         \* useState(false)
    commands,           \* suspended handlePyAction invocations
    nextCommand,        \* number of handlePyAction invocations so far, plus one
    token,              \* useState(null)
    repos,              \* useState([])
    loading,            \* useState(true)
    urlToken,           \* the token parameter of window.location.search
    storedToken,        \* localStorage item 'github_token'
    bootPc,             \* where the mount effects and fetchRepos stand
    crashed,            \* render threw: React unmounted the component tree
    rL, rR, rCat, rSearch, rForm, rOut   \* reconcile harness: inputs and output

bootVars == <<token, repos, loading, urlToken, storedToken, bootPc, crashed>>
cmdVars == <<aiTextBox, pyOutput, isThinking, commands, nextCommand>>
appVars == <<variant, selectedRepo, issues, importantIssues, categorizedIssues,
             selectedIssue, selectedCategory, issuesLoading, issueSearch,
             tasks, nextId, triageCalls, failed, ev, cmdVars, bootVars>>
fnVars  == <<rL, rR, rCat, rSearch, rForm, rOut>>
vars    == <<appVars, cmdVars, bootVars, fnVars>>

(***************************************************************************)
(* Bounds                                                                   *)
(***************************************************************************)
\* handleRepoClick invocations in one run
MaxSelects == 2
\* length of an order-form / subset-form Triage Service answer in the state machine
MaxTitles == 2
\* total number of titles in a partition-form answer in the state machine
MaxCatTitles == 1
\* length of the issue list given to reconcile in the harness
MaxIssues == 3
\* number of titles in a TriageResult given to reconcile in the harness
MaxResult == 2
\* handlePyAction invocations in one run
MaxCommands == 2
\* handleRepoClick invocations in one run of the command specification
MaxCommandSelects == 1

(***************************************************************************)
(* Values                                                                   *)
(***************************************************************************)
NULL == "null"
NullIssue == [id |-> 0, title |-> <<>>]

Variants == {"subset", "order", "categoryA", "categoryB", "flat"}
IsCategoryVariant(v) == v \in {"categoryA", "categoryB"}

\* the fixed category labels of categorizedIssues
Labels == {"Major", "Minor", "Bug"}
EmptyCategories == [c \in Labels |-> <<>>]

\* titles are strings; a string is modelled as its sequence of characters
TFix   == <<"F", "i">>
TTypo  == <<"t", "y">>
TCrash == <<"C">>
Titles == {TFix, TTypo, TCrash}

\* the repositories of the sidebar and what the Issue Gateway holds for each
Repos == {"A", "B", "E"}
\* what the Repository Gateway holds for the signed-in user
UserRepos == <<"A", "B", "E">>
\* the credentials of the model: one handed over in the URL, one stored earlier
UrlTokenValue == "u"
StoredTokenValue == "s"
RepoIssues(r) ==
    CASE r = "A" -> <<[id |-> 1, title |-> TFix], [id |-> 2, title |-> TTypo]>>
      [] r = "B" -> <<[id |-> 3, title |-> TTypo], [id |-> 4, title |-> TCrash]>>
      [] OTHER   -> <<>>

Range(s) == {s[i] : i \in 1..Len(s)}
BoundedSeq(S, n) == UNION {[1..k -> S] : k \in 0..n}


(***************************************************************************)
(* JavaScript helpers used by the handlers and by render                    *)
(***************************************************************************)
\* String.prototype.toLowerCase, on the characters titles and searches use
LowerChar(ch) ==
    CASE ch = "F" -> "f"
      [] ch = "C" -> "c"
      [] ch = "I" -> "i"
      [] ch = "T" -> "t"
      [] ch = "Y" -> "y"
      [] OTHER    -> ch
toLowerCase(s) == [i \in 1..Len(s) |-> LowerChar(s[i])]

\* String.prototype.includes: sub occurs in s as a substring
includes(s, sub) ==
    \E i \in 0..(Len(s) - Len(sub)) : SubSeq(s, i + 1, i + Len(sub)) = sub

\* Array.prototype.indexOf: zero-based index of the first occurrence, -1 if none
indexOf(arr, x) ==
    IF \E i \in 1..Len(arr) : arr[i] = x
    THEN (CHOOSE i \in 1..Len(arr) :
              arr[i] = x /\ \A j \in 1..(i - 1) : arr[j] # x) - 1
    ELSE -1

\* issues.map(issue => issue.title)
titlesOf(list) == [i \in 1..Len(list) |-> list[i].title]

(***************************************************************************)
(* Subset form: importantIssues (handleRepoClick) and filteredIssues        *)
(* (render) of src/src/App.jsx                                              *)
(***************************************************************************)
\* data.filter(issue => importantIssueTitles.includes(issue.title))
importantOf(data, importantIssueTitles) ==
    LET keep(issue) == \E k \in 1..Len(importantIssueTitles) :
                           importantIssueTitles[k] = issue.title
    IN  SelectSeq(data, keep)

\* filteredIssues without the exclusion of the important issues
filteredIssuesKeepImportant(list, important, search) ==
    LET keep(issue) == includes(toLowerCase(issue.title), toLowerCase(search))
    IN  SelectSeq(list, keep)

\* issues.filter(issue => title.toLowerCase().includes(search.toLowerCase())
\*                        && !importantIssues.some(important => important.id === issue.id))
filteredIssues(list, important, search) ==
    LET keep(issue) ==
            /\ includes(toLowerCase(issue.title), toLowerCase(search))
            /\ ~ \E k \in 1..Len(important) : important[k].id = issue.id
    IN  SelectSeq(list, keep)

(***************************************************************************)
(* Partition form: categorizeIssues of part_000 / part_002                  *)
(***************************************************************************)
\* issues.find(i => i.title === title): the first issue with that title
findByTitle(list, title) ==
    list[CHOOSE i \in 1..Len(list) :
             list[i].title = title /\ \A j \in 1..(i - 1) : list[j].title # title]

\* the matching done from the issue side: issues.filter(i => titles.includes(i.title))
mapFindInListOrder(titles, list) ==
    LET keep(issue) == \E k \in 1..Len(titles) : titles[k] = issue.title
    IN  SelectSeq(list, keep)

\* the mapping without .filter(Boolean): a title no issue carries leaves the
\* undefined of issues.find in the list
RECURSIVE mapFindKeepUndefined(_, _)
mapFindKeepUndefined(titles, list) ==
    IF titles = <<>> THEN <<>>
    ELSE IF \E i \in 1..Len(list) : list[i].title = Head(titles)
         THEN <<findByTitle(list, Head(titles))>>
                  \o mapFindKeepUndefined(Tail(titles), list)
         ELSE <<NullIssue>> \o mapFindKeepUndefined(Tail(titles), list)

\* titles.map(title => issues.find(i => i.title === title)).filter(Boolean)
RECURSIVE mapFind(_, _)
mapFind(titles, list) ==
    IF titles = <<>> THEN <<>>
    ELSE IF \E i \in 1..Len(list) : list[i].title = Head(titles)
         THEN <<findByTitle(list, Head(titles))>> \o mapFind(Tail(titles), list)
         ELSE mapFind(Tail(titles), list)

\* categorizedWithFullIssues
categorizedWithFullIssues(list, categorized) ==
    [c \in Labels |-> mapFind(categorized[c], list)]

(***************************************************************************)
(* Order form: sortIssues of src/src/App.jsx 376-399                        *)
(*                                                                         *)
(* The comparator answers 1 for (a, b) and for (b, a) when neither title is *)
(* in sortedTitles, so it is not a consistent comparator and the order      *)
(* Array.prototype.sort produces is implementation-defined (ECMA-262,       *)
(* 23.1.3.30).  Two engine strategies for short arrays are modelled, both   *)
(* driven by the comparator exactly as written: an insertion sort that      *)
(* calls comparefn(earlier, item) walking left, and a run detection plus    *)
(* binary insertion that calls comparefn(pivot, element).                   *)
(***************************************************************************)
\* (a, b) => { aIndex, bIndex; if (aIndex === -1) return 1;
\*             if (bIndex === -1) return -1; return aIndex - bIndex; }
compareIssues(a, b, sortedTitles) ==
    LET aIndex == indexOf(sortedTitles, a.title)
        bIndex == indexOf(sortedTitles, b.title)
    IN  IF aIndex = -1 THEN 1
        ELSE IF bIndex = -1 THEN -1
        ELSE aIndex - bIndex

InsertAt(arr, pos, item) ==
    SubSeq(arr, 1, pos) \o <<item>> \o SubSeq(arr, pos + 1, Len(arr))

Reverse(arr) == [i \in 1..Len(arr) |-> arr[Len(arr) + 1 - i]]

\* walk left from position j while comparefn(arr[j], item) > 0
RECURSIVE linearSlot(_, _, _, _)
linearSlot(arr, item, j, sortedTitles) ==
    IF j = 0 THEN 0
    ELSE IF compareIssues(arr[j], item, sortedTitles) <= 0 THEN j
    ELSE linearSlot(arr, item, j - 1, sortedTitles)

RECURSIVE linearInsertionSort(_, _, _)
linearInsertionSort(arr, i, sortedTitles) ==
    IF i > Len(arr) THEN arr
    ELSE LET prefix == SubSeq(arr, 1, i - 1)
             slot   == linearSlot(prefix, arr[i], i - 1, sortedTitles)
         IN  linearInsertionSort(
                 InsertAt(prefix, slot, arr[i]) \o SubSeq(arr, i + 1, Len(arr)),
                 i + 1, sortedTitles)

\* length of the initial run: strictly descending if comparefn(arr[2], arr[1]) < 0
RECURSIVE runEnd(_, _, _, _)
runEnd(arr, idx, descending, sortedTitles) ==
    IF idx > Len(arr) THEN idx - 1
    ELSE LET order == compareIssues(arr[idx], arr[idx - 1], sortedTitles)
         IN  IF descending /\ order >= 0 THEN idx - 1
             ELSE IF ~descending /\ order < 0 THEN idx - 1
             ELSE runEnd(arr, idx + 1, descending, sortedTitles)

\* binary search of the slot of pivot in arr[left+1 .. right] (zero-based bounds)
RECURSIVE binarySlot(_, _, _, _, _)
binarySlot(arr, pivot, left, right, sortedTitles) ==
    IF left >= right THEN left
    ELSE LET mid == left + ((right - left) \div 2)
         IN  IF compareIssues(pivot, arr[mid + 1], sortedTitles) < 0
             THEN binarySlot(arr, pivot, left, mid, sortedTitles)
             ELSE binarySlot(arr, pivot, mid + 1, right, sortedTitles)

RECURSIVE binaryInsertionSort(_, _, _)
binaryInsertionSort(arr, start, sortedTitles) ==
    IF start > Len(arr) THEN arr
    ELSE LET prefix == SubSeq(arr, 1, start - 1)
             slot   == binarySlot(prefix, arr[start], 0, start - 1, sortedTitles)
         IN  binaryInsertionSort(
                 InsertAt(prefix, slot, arr[start]) \o SubSeq(arr, start + 1, Len(arr)),
                 start + 1, sortedTitles)

runThenBinaryInsertionSort(arr, sortedTitles) ==
    IF Len(arr) < 2 THEN arr
    ELSE LET descending == compareIssues(arr[2], arr[1], sortedTitles) < 0
             run        == runEnd(arr, 3, descending, sortedTitles)
             head       == IF descending THEN Reverse(SubSeq(arr, 1, run))
                                         ELSE SubSeq(arr, 1, run)
         IN  binaryInsertionSort(head \o SubSeq(arr, run + 1, Len(arr)),
                                 run + 1, sortedTitles)

Engines == {"linear", "binary"}

\* the order built from the titles side: the issue found for each sorted
\* title, then the issues whose title is not among the sorted titles
sortedIssuesFromTitles(list, sortedTitles, engine) ==
    LET unmatched(issue) == indexOf(sortedTitles, issue.title) = -1
    IN  mapFind(sortedTitles, list) \o SelectSeq(list, unmatched)

\* issues.slice().sort(comparator)
sortedIssuesOf(list, sortedTitles, engine) ==
    IF engine = "linear"
    THEN linearInsertionSort(list, 2, sortedTitles)
    ELSE runThenBinaryInsertionSort(list, sortedTitles)

(***************************************************************************)
(* What the Triage Service and the user may supply                          *)
(***************************************************************************)
\* answers of /ai/sort-issues: a sequence of titles (any titles: a black box)
SortResults == BoundedSeq(Titles, MaxTitles)

\* answers of /ai/categorize-issues: the fixed labels, each a sequence of titles
CatResultsUpTo(n) ==
    {r \in [Labels -> BoundedSeq(Titles, n)] :
        Len(r["Major"]) + Len(r["Minor"]) + Len(r["Bug"]) <= n}
CatResults == CatResultsUpTo(MaxCatTitles)

\* what the user types into the issue search box
Searches == {<<>>, <<"F">>, <<"y">>}

Event(op, id, repo) == [op |-> op, id |-> id, repo |-> repo]

(***************************************************************************)
(* render: what the issue section of the page shows                         *)
(***************************************************************************)
\* render gets past "if (loading) return <Spinner/>" and "if (!token) return
\* <login prompt>", and has not thrown
PageShown == ~loading /\ token # NULL /\ ~crashed

\* render returns the "Please log in with your GitHub account" prompt
LoginPromptShown == ~loading /\ token = NULL /\ ~crashed

\* the list section shown for a repository whether or not an issue is open
ListSectionIgnoringIssue == selectedRepo # NULL

\* the condition of the issue-list section: selectedRepo && !selectedIssue
ListSection == selectedRepo # NULL /\ selectedIssue = NullIssue

\* the "select a repository" prompt: !selectedRepo (part_001 renders none)
PromptSection == variant # "flat" /\ selectedRepo = NULL

\* the issues rendered as clickable rows, in page order
VisibleIssues ==
    CASE variant = "subset" ->
            IF ListSection /\ ~issuesLoading
            THEN importantIssues \o filteredIssues(issues, importantIssues, issueSearch)
            ELSE <<>>
      [] variant \in {"order", "flat"} ->
            IF ListSection THEN issues ELSE <<>>
      [] OTHER ->
            IF ListSection /\ selectedCategory # NULL
            THEN categorizedIssues[selectedCategory]
            ELSE <<>>

\* the text the issue-list section shows in place of rows, "none" when hidden
ListMessage ==
    CASE ~ListSection -> "none"
      [] variant = "subset" ->
            IF issuesLoading THEN "Loading issues"
            ELSE IF filteredIssues(issues, importantIssues, issueSearch) = <<>>
                 THEN "No issues found" ELSE "rows"
      [] variant \in {"order", "flat"} ->
            IF Len(issues) > 0 THEN "rows" ELSE "Loading issues"
      [] OTHER ->
            IF selectedCategory = NULL THEN "Categories"
            ELSE IF Len(categorizedIssues[selectedCategory]) > 0
                 THEN "rows" ELSE "No issues in this category"

(***************************************************************************)
(* Initial state: the useState defaults                                     *)
(***************************************************************************)
\* pyOutput is a text: '' or what a Command Gateway response carried. A
\* response text is told apart by the call it answers and by its HTTP status.
EmptyText == [kind |-> "empty", cmd |-> 0, issue |-> 0]

NoOutput == [order |-> <<>>, important |-> <<>>, remaining |-> <<>>,
             categories |-> EmptyCategories]

AppInit ==
    /\ selectedRepo = NULL
    /\ issues = <<>>
    /\ importantIssues = <<>>
    /\ categorizedIssues = EmptyCategories
    /\ selectedIssue = NullIssue
    /\ selectedCategory = NULL
    /\ issuesLoading = FALSE
    /\ issueSearch = <<>>
    /\ tasks = {}
    /\ nextId = 1
    /\ triageCalls = {}
    /\ failed = {}
    /\ ev = Event("init", 0, NULL)
    /\ aiTextBox = <<>>
    /\ pyOutput = EmptyText
    /\ isThinking = FALSE
    /\ commands = {}
    /\ nextCommand = 1

FnIdle ==
    /\ rL = <<>>
    /\ rR = <<>>
    /\ rCat = EmptyCategories
    /\ rSearch = <<>>
    /\ rForm = "none"
    /\ rOut = NoOutput

\* the signed-in page: the mount effects have run with a stored credential
\* and the repository list has been fetched
SignedIn ==
    /\ token = StoredTokenValue
    /\ urlToken = NULL
    /\ storedToken = StoredTokenValue
    /\ repos = UserRepos
    /\ loading = FALSE
    /\ bootPc = "idle"
    /\ crashed = FALSE

Init ==
    /\ variant \in Variants
    /\ AppInit
    /\ SignedIn
    /\ FnIdle

(***************************************************************************)
(* handleRepoClick / handleRepoSelect                                       *)
(***************************************************************************)
Task(id, repo, pc, data) == [id |-> id, repo |-> repo, pc |-> pc, data |-> data]

\* the variants that clear selectedIssue in handleRepoClick (part_001 does not)
ClearsIssueOnSelect(v) == v # "flat"
\* the variants that clear selectedCategory in handleRepoSelect (part_000 does not)
ClearsCategoryOnSelect(v) == v = "categoryB"
\* the variants that call the Triage Service for an empty issue list
TriagesEmptyList(v) == v = "subset"
\* the variants that call the Triage Service at all
HasTriage(v) == v # "flat"

\* the handler that leaves the triage view of the previous repository in place
handleRepoClickKeepsTriage(repoName) ==
    /\ PageShown
    /\ repoName \in Range(repos)
    /\ nextId <= MaxSelects
    /\ selectedRepo' = repoName
    /\ selectedIssue' = IF ClearsIssueOnSelect(variant) THEN NullIssue ELSE selectedIssue
    /\ issues' = <<>>
    /\ selectedCategory' = IF ClearsCategoryOnSelect(variant) THEN NULL ELSE selectedCategory
    /\ issuesLoading' = (variant = "subset")
    /\ tasks' = tasks \cup {Task(nextId, repoName, "issues", <<>>)}
    /\ nextId' = nextId + 1
    /\ ev' = Event("select", nextId, repoName)
    /\ UNCHANGED <<variant, importantIssues, categorizedIssues, issueSearch,
                   triageCalls, failed, cmdVars, bootVars, fnVars>>

\* the synchronous part of the handler, up to the first await
\* (repository names are the non-empty strings of the repository list)
handleRepoClick(repoName) ==
    /\ PageShown
    /\ repoName \in Range(repos)
    /\ nextId <= MaxSelects
    /\ selectedRepo' = repoName
    /\ selectedIssue' = IF ClearsIssueOnSelect(variant) THEN NullIssue ELSE selectedIssue
    /\ issues' = <<>>
    /\ importantIssues' = <<>>
    /\ categorizedIssues' = EmptyCategories
    /\ selectedCategory' = IF ClearsCategoryOnSelect(variant) THEN NULL ELSE selectedCategory
    /\ issuesLoading' = (variant = "subset")
    /\ tasks' = tasks \cup {Task(nextId, repoName, "issues", <<>>)}
    /\ nextId' = nextId + 1
    /\ ev' = Event("select", nextId, repoName)
    /\ UNCHANGED <<variant, issueSearch, triageCalls, failed, cmdVars, bootVars, fnVars>>

\* whether the handler goes on to the Triage Service call after setIssues(data)
CallsTriage(v, data) ==
    /\ HasTriage(v)
    /\ (TriagesEmptyList(v) \/ Len(data) > 0)

\* the continuation sending the titles in another order than the fetch order
IssuesResponseReorderedTitles(t) ==
    /\ t \in tasks /\ t.pc = "issues"
    /\ LET data == RepoIssues(t.repo)
       IN  /\ issues' = data
           /\ IF CallsTriage(variant, data)
              THEN /\ tasks' = (tasks \ {t}) \cup {Task(t.id, t.repo, "triage", data)}
                   /\ triageCalls' = triageCalls \cup
                                       {[id |-> t.id, titles |-> Reverse(titlesOf(data))]}
                   /\ UNCHANGED issuesLoading
              ELSE /\ tasks' = tasks \ {t}
                   /\ UNCHANGED triageCalls
                   /\ issuesLoading' = IF variant = "subset" THEN FALSE ELSE issuesLoading
    /\ ev' = Event("issuesOk", t.id, t.repo)
    /\ UNCHANGED <<variant, selectedRepo, importantIssues, categorizedIssues,
                   selectedIssue, selectedCategory, issueSearch, nextId, failed,
                   cmdVars, bootVars, fnVars>>

\* the continuation with the titles of the triage call taken from the issues
\* state (issues.map) instead of the response (data.map)
IssuesResponseStateTitles(t) ==
    /\ t \in tasks /\ t.pc = "issues"
    /\ LET data == RepoIssues(t.repo)
       IN  /\ issues' = data
           /\ IF CallsTriage(variant, data)
              THEN /\ tasks' = (tasks \ {t}) \cup {Task(t.id, t.repo, "triage", data)}
                   /\ triageCalls' = triageCalls \cup
                                       {[id |-> t.id, titles |-> titlesOf(issues)]}
                   /\ UNCHANGED issuesLoading
              ELSE /\ tasks' = tasks \ {t}
                   /\ UNCHANGED triageCalls
                   /\ issuesLoading' = IF variant = "subset" THEN FALSE ELSE issuesLoading
    /\ ev' = Event("issuesOk", t.id, t.repo)
    /\ UNCHANGED <<variant, selectedRepo, importantIssues, categorizedIssues,
                   selectedIssue, selectedCategory, issueSearch, nextId, failed,
                   cmdVars, bootVars, fnVars>>

\* the Issue Gateway answers task t: setIssues(data), then the triage call or the end
IssuesResponse(t) ==
    /\ t \in tasks /\ t.pc = "issues"
    /\ LET data == RepoIssues(t.repo)
       IN  /\ issues' = data
           /\ IF CallsTriage(variant, data)
              THEN /\ tasks' = (tasks \ {t}) \cup {Task(t.id, t.repo, "triage", data)}
                   /\ triageCalls' = triageCalls \cup
                                       {[id |-> t.id, titles |-> titlesOf(data)]}
                   /\ UNCHANGED issuesLoading
              ELSE /\ tasks' = tasks \ {t}
                   /\ UNCHANGED triageCalls
                   /\ issuesLoading' = IF variant = "subset" THEN FALSE ELSE issuesLoading
    /\ ev' = Event("issuesOk", t.id, t.repo)
    /\ UNCHANGED <<variant, selectedRepo, importantIssues, categorizedIssues,
                   selectedIssue, selectedCategory, issueSearch, nextId, failed, cmdVars, bootVars, fnVars>>

\* catch without the finally block: the loading flag is left as it is
AfterCatchKeepsLoading(t, kind) ==
    /\ tasks' = tasks \ {t}
    /\ failed' = failed \cup {[id |-> t.id, kind |-> kind]}
    /\ issuesLoading' = issuesLoading

\* what catch and finally leave behind: console.error, and in the subset
\* variant setIssuesLoading(false)
AfterCatch(t, kind) ==
    /\ tasks' = tasks \ {t}
    /\ failed' = failed \cup {[id |-> t.id, kind |-> kind]}
    /\ issuesLoading' = IF variant = "subset" THEN FALSE ELSE issuesLoading

\* the fetch of the issue list rejects, or response.json() throws
IssuesFail(t) ==
    /\ t \in tasks /\ t.pc = "issues"
    /\ AfterCatch(t, "issues")
    /\ ev' = Event("issuesFail", t.id, t.repo)
    /\ UNCHANGED <<variant, selectedRepo, issues, importantIssues, categorizedIssues,
                   selectedIssue, selectedCategory, issueSearch, nextId, triageCalls,
                   cmdVars, bootVars, fnVars>>

\* subset variant: /ai/sort-issues answers with the important titles
ImportantResponse(t, importantIssueTitles) ==
    /\ variant = "subset"
    /\ t \in tasks /\ t.pc = "triage"
    /\ importantIssues' = importantOf(t.data, importantIssueTitles)
    /\ issuesLoading' = FALSE
    /\ tasks' = tasks \ {t}
    /\ ev' = Event("triageOk", t.id, t.repo)
    /\ UNCHANGED <<variant, selectedRepo, issues, categorizedIssues, selectedIssue,
                   selectedCategory, issueSearch, nextId, triageCalls, failed, cmdVars, bootVars, fnVars>>

\* order variant: sortIssues after its await
SortResponse(t, sortedTitles, engine) ==
    /\ variant = "order"
    /\ t \in tasks /\ t.pc = "triage"
    /\ issues' = sortedIssuesOf(t.data, sortedTitles, engine)
    /\ tasks' = tasks \ {t}
    /\ ev' = Event("triageOk", t.id, t.repo)
    /\ UNCHANGED <<variant, selectedRepo, importantIssues, categorizedIssues,
                   selectedIssue, selectedCategory, issuesLoading, issueSearch, nextId,
                   triageCalls, failed, cmdVars, bootVars, fnVars>>

\* category variants: categorizeIssues after its await
CategorizeResponse(t, categorized) ==
    /\ IsCategoryVariant(variant)
    /\ t \in tasks /\ t.pc = "triage"
    /\ categorizedIssues' = categorizedWithFullIssues(t.data, categorized)
    /\ tasks' = tasks \ {t}
    /\ ev' = Event("triageOk", t.id, t.repo)
    /\ UNCHANGED <<variant, selectedRepo, issues, importantIssues, selectedIssue,
                   selectedCategory, issuesLoading, issueSearch, nextId, triageCalls,
                   failed, cmdVars, bootVars, fnVars>>

\* the Triage Service call rejects, or its answer is not of the expected shape
TriageFail(t) ==
    /\ t \in tasks /\ t.pc = "triage"
    /\ AfterCatch(t, "triage")
    /\ ev' = Event("triageFail", t.id, t.repo)
    /\ UNCHANGED <<variant, selectedRepo, issues, importantIssues, categorizedIssues,
                   selectedIssue, selectedCategory, issueSearch, nextId, triageCalls,
                   cmdVars, bootVars, fnVars>>

(***************************************************************************)
(* View-state handlers; each is enabled when render shows its control       *)
(***************************************************************************)
\* the click that also empties the result area for the newly opened issue
handleIssueClickResetsOutput(issue) ==
    /\ PageShown
    /\ issue \in Range(VisibleIssues)
    /\ selectedIssue' = issue
    /\ pyOutput' = EmptyText
    /\ ev' = Event("issueClick", issue.id, NULL)
    /\ UNCHANGED <<variant, selectedRepo, issues, importantIssues, categorizedIssues,
                   selectedCategory, issuesLoading, issueSearch, tasks, nextId,
                   triageCalls, failed, aiTextBox, isThinking, commands, nextCommand,
                   bootVars, fnVars>>

\* onClick of a rendered issue row
handleIssueClick(issue) ==
    /\ PageShown
    /\ issue \in Range(VisibleIssues)
    /\ selectedIssue' = issue
    /\ ev' = Event("issueClick", issue.id, NULL)
    /\ UNCHANGED <<variant, selectedRepo, issues, importantIssues, categorizedIssues,
                   selectedCategory, issuesLoading, issueSearch, tasks, nextId,
                   triageCalls, failed, cmdVars, bootVars, fnVars>>

\* the variants whose handleBackToIssues also clears selectedCategory (part_000)
BackClearsCategory(v) == v = "categoryA"

\* the condition of the issue section: selectedIssue, in part_002 selectedRepo too
IssueSection ==
    /\ selectedIssue # NullIssue
    /\ (variant = "categoryB" => selectedRepo # NULL)

\* "Back to Issues"
handleBackToIssues ==
    /\ PageShown
    /\ IssueSection
    /\ selectedIssue' = NullIssue
    /\ selectedCategory' = IF BackClearsCategory(variant) THEN NULL ELSE selectedCategory
    /\ ev' = Event("back", 0, NULL)
    /\ UNCHANGED <<variant, selectedRepo, issues, importantIssues, categorizedIssues,
                   issuesLoading, issueSearch, tasks, nextId, triageCalls, failed,
                   cmdVars, bootVars, fnVars>>

\* onClick of a row of the category list
handleCategorySelect(category) ==
    /\ PageShown
    /\ IsCategoryVariant(variant)
    /\ ListSection /\ selectedCategory = NULL
    /\ selectedCategory' = category
    /\ ev' = Event("category", 0, NULL)
    /\ UNCHANGED <<variant, selectedRepo, issues, importantIssues, categorizedIssues,
                   selectedIssue, issuesLoading, issueSearch, tasks, nextId,
                   triageCalls, failed, cmdVars, bootVars, fnVars>>

\* "Back to Categories": onClick={() => setSelectedCategory(null)}
backToCategories ==
    /\ PageShown
    /\ IsCategoryVariant(variant)
    /\ ListSection /\ selectedCategory # NULL
    /\ selectedCategory' = NULL
    /\ ev' = Event("backCat", 0, NULL)
    /\ UNCHANGED <<variant, selectedRepo, issues, importantIssues, categorizedIssues,
                   selectedIssue, issuesLoading, issueSearch, tasks, nextId,
                   triageCalls, failed, cmdVars, bootVars, fnVars>>

\* onChange of the issue search box: setIssueSearch(value)
setIssueSearch(value) ==
    /\ PageShown
    /\ variant = "subset"
    /\ ListSection /\ ~issuesLoading
    /\ value # issueSearch
    /\ issueSearch' = value
    /\ ev' = Event("search", 0, NULL)
    /\ UNCHANGED <<variant, selectedRepo, issues, importantIssues, categorizedIssues,
                   selectedIssue, selectedCategory, issuesLoading, tasks, nextId,
                   triageCalls, failed, cmdVars, bootVars, fnVars>>

(***************************************************************************)
(* handlePyAction: the command of the issue view                            *)
(***************************************************************************)
\* the texts typed into the command input
CommandTexts == {<<>>, <<"g", "o">>}

\* the variants whose /run-command URL can be fetched: 'http://12-7.0.0.1:8000'
\* (App.jsx 128) and 'http://1227.0.0.1:8000' (part_001 83) are not valid hosts,
\* fetch rejects for them
CommandGatewayReachable(v) == v \notin {"subset", "flat"}

\* the text of the response to call c: the body of a 2xx answer ("reply") or
\* of a non-2xx answer ("errorBody"); response.ok is never looked at
ResponseText(c, ok) ==
    [kind |-> IF ok THEN "reply" ELSE "errorBody", cmd |-> c.id, issue |-> c.issue.id]

\* onChange of the command input: setAiTextBox(value)
setAiTextBox(value) ==
    /\ PageShown
    /\ IssueSection
    /\ value # aiTextBox
    /\ aiTextBox' = value
    /\ ev' = Event("type", 0, NULL)
    /\ UNCHANGED <<variant, selectedRepo, issues, importantIssues, categorizedIssues,
                   selectedIssue, selectedCategory, issuesLoading, issueSearch, tasks,
                   nextId, triageCalls, failed, pyOutput, isThinking, commands,
                   nextCommand, bootVars, fnVars>>

\* the handler that drops a submission made while one is pending
handlePyActionDropsWhilePending ==
    /\ PageShown
    /\ IssueSection
    /\ nextCommand <= MaxCommands
    /\ isThinking' = TRUE
    /\ pyOutput' = EmptyText
    /\ commands' = IF isThinking THEN commands
                   ELSE commands \cup {[id |-> nextCommand, command |-> aiTextBox,
                                        issue |-> selectedIssue]}
    /\ nextCommand' = nextCommand + 1
    /\ ev' = Event("submit", nextCommand, NULL)
    /\ UNCHANGED <<variant, selectedRepo, issues, importantIssues, categorizedIssues,
                   selectedIssue, selectedCategory, issuesLoading, issueSearch, tasks,
                   nextId, triageCalls, failed, aiTextBox, bootVars, fnVars>>

\* the synchronous part of handlePyAction, up to the await of fetch
handlePyAction ==
    /\ PageShown
    /\ IssueSection
    /\ nextCommand <= MaxCommands
    /\ isThinking' = TRUE
    /\ pyOutput' = EmptyText
    /\ commands' = commands \cup
                      {[id |-> nextCommand, command |-> aiTextBox, issue |-> selectedIssue]}
    /\ nextCommand' = nextCommand + 1
    /\ ev' = Event("submit", nextCommand, NULL)
    /\ UNCHANGED <<variant, selectedRepo, issues, importantIssues, categorizedIssues,
                   selectedIssue, selectedCategory, issuesLoading, issueSearch, tasks,
                   nextId, triageCalls, failed, aiTextBox, bootVars, fnVars>>

\* the answer applied only when c is the newest submission (a per-submission
\* token compared at resolution time)
CommandResponseIfNewest(c, ok) ==
    /\ c \in commands
    /\ CommandGatewayReachable(variant)
    /\ pyOutput' = IF c.id = nextCommand - 1 THEN ResponseText(c, ok) ELSE pyOutput
    /\ isThinking' = FALSE
    /\ commands' = commands \ {c}
    /\ ev' = Event(IF ok THEN "cmdOk" ELSE "cmdStatus", c.id, NULL)
    /\ UNCHANGED <<variant, selectedRepo, issues, importantIssues, categorizedIssues,
                   selectedIssue, selectedCategory, issuesLoading, issueSearch, tasks,
                   nextId, triageCalls, failed, aiTextBox, nextCommand, bootVars, fnVars>>

\* the Command Gateway answers call c: setPyOutput(data), finally setIsThinking(false)
CommandResponse(c, ok) ==
    /\ c \in commands
    /\ CommandGatewayReachable(variant)
    /\ pyOutput' = ResponseText(c, ok)
    /\ isThinking' = FALSE
    /\ commands' = commands \ {c}
    /\ ev' = Event(IF ok THEN "cmdOk" ELSE "cmdStatus", c.id, NULL)
    /\ UNCHANGED <<variant, selectedRepo, issues, importantIssues, categorizedIssues,
                   selectedIssue, selectedCategory, issuesLoading, issueSearch, tasks,
                   nextId, triageCalls, failed, aiTextBox, nextCommand, bootVars, fnVars>>

\* the failure that also closes the issue view
CommandFailClosesIssue(c) ==
    /\ c \in commands
    /\ isThinking' = FALSE
    /\ commands' = commands \ {c}
    /\ failed' = failed \cup {[id |-> c.id, kind |-> "command"]}
    /\ selectedIssue' = NullIssue
    /\ ev' = Event("cmdFail", c.id, NULL)
    /\ UNCHANGED <<variant, selectedRepo, issues, importantIssues, categorizedIssues,
                   selectedCategory, issuesLoading, issueSearch, tasks,
                   nextId, triageCalls, aiTextBox, pyOutput, nextCommand, bootVars,
                   fnVars>>

\* fetch or response.text() rejects: console.error, finally setIsThinking(false)
CommandFail(c) ==
    /\ c \in commands
    /\ isThinking' = FALSE
    /\ commands' = commands \ {c}
    /\ failed' = failed \cup {[id |-> c.id, kind |-> "command"]}
    /\ ev' = Event("cmdFail", c.id, NULL)
    /\ UNCHANGED <<variant, selectedRepo, issues, importantIssues, categorizedIssues,
                   selectedIssue, selectedCategory, issuesLoading, issueSearch, tasks,
                   nextId, triageCalls, aiTextBox, pyOutput, nextCommand, bootVars, fnVars>>

(***************************************************************************)
(* The state machine                                                        *)
(***************************************************************************)
SelectRepository == \E repoName \in Repos : handleRepoClick(repoName)
IssueGatewayOk == \E t \in tasks : IssuesResponse(t)
IssueGatewayFail == \E t \in tasks : IssuesFail(t)
TriageImportantOk ==
    \E t \in tasks, r \in SortResults : ImportantResponse(t, r)
TriageSortOk ==
    \E t \in tasks, r \in SortResults, e \in Engines : SortResponse(t, r, e)
TriageCategorizeOk == \E t \in tasks, r \in CatResults : CategorizeResponse(t, r)
TriageServiceFail == \E t \in tasks : TriageFail(t)
SelectIssue == \E i \in Range(VisibleIssues) : handleIssueClick(i)
Back == handleBackToIssues
SelectCategory == \E c \in Labels : handleCategorySelect(c)
BackToCategories == backToCategories
TypeSearch == \E s \in Searches : setIssueSearch(s)

Next ==
    \/ SelectRepository
    \/ IssueGatewayOk
    \/ IssueGatewayFail
    \/ TriageImportantOk
    \/ TriageSortOk
    \/ TriageCategorizeOk
    \/ TriageServiceFail
    \/ SelectIssue
    \/ Back
    \/ SelectCategory
    \/ BackToCategories
    \/ TypeSearch

Spec == Init /\ [][Next]_vars

(***************************************************************************)
(* The state machine of a user who selects a repository only when no       *)
(* request of an earlier selection is in flight                             *)
(***************************************************************************)
SequentialNext ==
    \/ SelectRepository /\ tasks = {}
    \/ IssueGatewayOk
    \/ IssueGatewayFail
    \/ TriageImportantOk
    \/ TriageSortOk
    \/ TriageCategorizeOk
    \/ TriageServiceFail
    \/ SelectIssue
    \/ Back
    \/ SelectCategory
    \/ BackToCategories
    \/ TypeSearch

SpecSequential == Init /\ [][SequentialNext]_vars

(***************************************************************************)
(* The state machine with the command of the issue view                     *)
(***************************************************************************)
TypeCommand == \E value \in CommandTexts : setAiTextBox(value)
SubmitCommand == handlePyAction
CommandGatewayOk == \E c \in commands, ok \in BOOLEAN : CommandResponse(c, ok)
CommandGatewayFail == \E c \in commands : CommandFail(c)

CommandNext ==
    \/ SelectRepository /\ nextId <= MaxCommandSelects
    \/ IssueGatewayOk
    \/ IssueGatewayFail
    \/ TriageImportantOk
    \/ TriageSortOk
    \/ TriageCategorizeOk
    \/ TriageServiceFail
    \/ SelectIssue
    \/ Back
    \/ SelectCategory
    \/ BackToCategories
    \/ TypeSearch
    \/ TypeCommand
    \/ SubmitCommand
    \/ CommandGatewayOk
    \/ CommandGatewayFail

SpecCommand == Init /\ [][CommandNext]_vars

(***************************************************************************)
(* The mount effects: credential bootstrap and fetchRepos                   *)
(***************************************************************************)
\* urlParams.get('token'): null without the parameter, '' for "?token="
UrlTokens == {NULL, "", UrlTokenValue}
\* localStorage.getItem('github_token')
StoredTokens == {NULL, StoredTokenValue}

\* JavaScript truthiness of a string or null
Truthy(x) == x # NULL /\ x # ""

\* the state at mount: the useState defaults, any location and any store
MountInit ==
    /\ variant \in Variants
    /\ AppInit
    /\ token = NULL
    /\ repos = <<>>
    /\ loading = TRUE
    /\ urlToken \in UrlTokens
    /\ storedToken \in StoredTokens
    /\ bootPc = "mount"
    /\ crashed = FALSE
    /\ FnIdle

\* the bootstrap that persists the URL token only into an empty store
bootstrapKeepStored ==
    /\ bootPc = "mount"
    /\ IF Truthy(urlToken)
       THEN /\ token' = urlToken
            /\ storedToken' = IF Truthy(storedToken) THEN storedToken ELSE urlToken
            /\ urlToken' = NULL
       ELSE /\ token' = IF Truthy(storedToken) THEN storedToken ELSE token
            /\ UNCHANGED <<storedToken, urlToken>>
    /\ loading' = FALSE
    /\ bootPc' = "effect1"
    /\ ev' = Event("boot", 0, NULL)
    /\ UNCHANGED <<variant, selectedRepo, issues, importantIssues, categorizedIssues,
                   selectedIssue, selectedCategory, issuesLoading, issueSearch, tasks,
                   nextId, triageCalls, failed, cmdVars, repos, crashed, fnVars>>

\* useEffect(..., []) of the token; the fetchRepos effect of the same commit
\* runs next ("effect1", with the token of the first render, null)
bootstrap ==
    /\ bootPc = "mount"
    /\ IF Truthy(urlToken)
       THEN /\ token' = urlToken
            /\ storedToken' = urlToken
            /\ urlToken' = NULL
       ELSE /\ token' = IF Truthy(storedToken) THEN storedToken ELSE token
            /\ UNCHANGED <<storedToken, urlToken>>
    /\ loading' = FALSE
    /\ bootPc' = "effect1"
    /\ ev' = Event("boot", 0, NULL)
    /\ UNCHANGED <<variant, selectedRepo, issues, importantIssues, categorizedIssues,
                   selectedIssue, selectedCategory, issuesLoading, issueSearch, tasks,
                   nextId, triageCalls, failed, cmdVars, repos, crashed, fnVars>>

\* fetchRepos started for any token, without "if (!token) return"
fetchReposUnguarded(tok) ==
    /\ bootPc \in {"effect1", "effect2"}
    /\ loading' = TRUE
    /\ bootPc' = "fetching"
    /\ ev' = Event("fetchRepos", 0, NULL)
    /\ UNCHANGED <<variant, selectedRepo, issues, importantIssues, categorizedIssues,
                   selectedIssue, selectedCategory, issuesLoading, issueSearch, tasks,
                   nextId, triageCalls, failed, cmdVars, token, repos, urlToken,
                   storedToken, crashed, fnVars>>

\* useEffect(..., [token]): fetchRepos up to the await of fetch, run with the
\* token tok of the render that scheduled the effect; the effect runs again
\* ("effect2") when the bootstrap has changed the token
fetchRepos(tok) ==
    /\ bootPc \in {"effect1", "effect2"}
    /\ IF ~Truthy(tok)
       THEN /\ bootPc' = IF token # tok THEN "effect2" ELSE "idle"
            /\ UNCHANGED loading
       ELSE /\ loading' = TRUE
            /\ bootPc' = "fetching"
    /\ ev' = Event("fetchRepos", 0, NULL)
    /\ UNCHANGED <<variant, selectedRepo, issues, importantIssues, categorizedIssues,
                   selectedIssue, selectedCategory, issuesLoading, issueSearch, tasks,
                   nextId, triageCalls, failed, cmdVars, token, repos, urlToken,
                   storedToken, crashed, fnVars>>

\* the Repository Gateway answers with the array of names: setRepos(data),
\* finally setLoading(false)
ReposResponse(data) ==
    /\ bootPc = "fetching"
    /\ repos' = data
    /\ loading' = FALSE
    /\ bootPc' = "idle"
    /\ ev' = Event("reposOk", 0, NULL)
    /\ UNCHANGED <<variant, selectedRepo, issues, importantIssues, categorizedIssues,
                   selectedIssue, selectedCategory, issuesLoading, issueSearch, tasks,
                   nextId, triageCalls, failed, cmdVars, token, urlToken, storedToken,
                   crashed, fnVars>>

\* the variants that test Array.isArray(data) before setRepos (part_000 87)
ChecksReposArray(v) == v = "categoryA"

\* the Repository Gateway answers with a non-success status and a JSON object
\* as body: response.ok is not looked at; part_000 stores [], the other
\* variants store the object and repos.map throws in the next render
ReposStatusResponse ==
    /\ bootPc = "fetching"
    /\ crashed' = ~ChecksReposArray(variant)
    /\ loading' = FALSE
    /\ bootPc' = "idle"
    /\ ev' = Event("reposStatus", 0, NULL)
    /\ UNCHANGED <<variant, selectedRepo, issues, importantIssues, categorizedIssues,
                   selectedIssue, selectedCategory, issuesLoading, issueSearch, tasks,
                   nextId, triageCalls, failed, cmdVars, token, repos, urlToken,
                   storedToken, fnVars>>

\* fetch or response.json() rejects: console.error, finally setLoading(false)
ReposFail ==
    /\ bootPc = "fetching"
    /\ loading' = FALSE
    /\ bootPc' = "idle"
    /\ failed' = failed \cup {[id |-> 0, kind |-> "repos"]}
    /\ ev' = Event("reposFail", 0, NULL)
    /\ UNCHANGED <<variant, selectedRepo, issues, importantIssues, categorizedIssues,
                   selectedIssue, selectedCategory, issuesLoading, issueSearch, tasks,
                   nextId, triageCalls, cmdVars, token, repos, urlToken, storedToken,
                   crashed, fnVars>>

Bootstrap == bootstrap
FetchRepos == fetchRepos(IF bootPc = "effect1" THEN NULL ELSE token)
RepositoryGatewayOk == ReposResponse(UserRepos)
RepositoryGatewayStatus == ReposStatusResponse
RepositoryGatewayFail == ReposFail

BootNext ==
    \/ Bootstrap
    \/ FetchRepos
    \/ RepositoryGatewayOk
    \/ RepositoryGatewayStatus
    \/ RepositoryGatewayFail
    \/ CommandNext

SpecBoot == MountInit /\ [][BootNext]_vars

(***************************************************************************)
(* The same state machine with its scheduling: the mount effects run, and  *)
(* every request in flight is eventually answered or fails.  The user is   *)
(* under no obligation to do anything.                                      *)
(***************************************************************************)
\* a pending effect runs, or a request in flight completes
Completion ==
    \/ Bootstrap
    \/ FetchRepos
    \/ RepositoryGatewayOk
    \/ RepositoryGatewayStatus
    \/ RepositoryGatewayFail
    \/ IssueGatewayOk
    \/ IssueGatewayFail
    \/ TriageImportantOk
    \/ TriageSortOk
    \/ TriageCategorizeOk
    \/ TriageServiceFail
    \/ CommandGatewayOk
    \/ CommandGatewayFail

SpecSettle == MountInit /\ [][BootNext]_vars /\ WF_vars(Completion)

(***************************************************************************)
(* reconcile as a function: every bounded issue list against every bounded  *)
(* TriageResult, through the same operators the handlers use                *)
(***************************************************************************)
\* issue lists with distinct ids and any titles, duplicates included
IssueLists ==
    UNION {{[i \in 1..n |-> [id |-> i, title |-> f[i]]] : f \in [1..n -> Titles]}
            : n \in 0..MaxIssues}

FnResults == BoundedSeq(Titles, MaxResult)
FnCatResults == CatResultsUpTo(MaxResult)

FnInit ==
    /\ variant = "order"
    /\ AppInit
    /\ SignedIn
    /\ rL \in IssueLists
    /\ rR = <<>>
    /\ rCat = EmptyCategories
    /\ rSearch = <<>>
    /\ rForm = "none"
    /\ rOut = NoOutput

\* order form: sortIssues on (rL, sortedTitles)
ReconcileOrder ==
    /\ rForm = "none"
    /\ \E sortedTitles \in FnResults, e \in Engines :
          /\ rR' = sortedTitles
          /\ rOut' = [NoOutput EXCEPT !.order = sortedIssuesOf(rL, sortedTitles, e)]
    /\ rForm' = "order"
    /\ UNCHANGED <<appVars, rL, rCat, rSearch>>

\* subset form: importantIssues of handleRepoClick, filteredIssues of render
ReconcileSubset ==
    /\ rForm = "none"
    /\ \E importantIssueTitles \in FnResults, search \in Searches :
          LET important == importantOf(rL, importantIssueTitles)
          IN  /\ rR' = importantIssueTitles
              /\ rSearch' = search
              /\ rOut' = [NoOutput EXCEPT
                            !.important = important,
                            !.remaining = filteredIssues(rL, important, search)]
    /\ rForm' = "subset"
    /\ UNCHANGED <<appVars, rL, rCat>>

\* partition form: categorizeIssues on (rL, categorized)
ReconcilePartition ==
    /\ rForm = "none"
    /\ \E categorized \in FnCatResults :
          /\ rCat' = categorized
          /\ rOut' = [NoOutput EXCEPT
                        !.categories = categorizedWithFullIssues(rL, categorized)]
    /\ rForm' = "partition"
    /\ UNCHANGED <<appVars, rL, rR, rSearch>>

FnNext ==
    \/ ReconcileOrder
    \/ ReconcileSubset
    \/ ReconcilePartition

SpecReconcile == FnInit /\ [][FnNext]_vars

(***************************************************************************)
(* Properties                                                               *)
(***************************************************************************)
\* the state a response of a superseded selection must leave alone
Visible == <<selectedRepo, issues, importantIssues, categorizedIssues,
             selectedIssue, selectedCategory, issuesLoading>>

\* C1: a Triage Service response requested for repository A that arrives while
\* another repository B is selected is discarded: it changes no visible state.
C1_StaleTriageDiscarded ==
    [][(ev'.op = "triageOk" /\ ev'.repo # selectedRepo) => UNCHANGED Visible]_vars

\* the issues of list a are those of list b (same records, any order)
SameIssues(a, b) == Len(a) = Len(b) /\ Range(a) = Range(b)

\* C2: once every in-flight response has been delivered (none failed), the
\* visible IssueSet is the list fetched for the selected repository and holds
\* no issue of another repository, whatever the delivery order was.
C2_SettledIssueSetIsCurrent ==
    (tasks = {} /\ failed = {} /\ selectedRepo # NULL)
        => SameIssues(issues, RepoIssues(selectedRepo))

\* C3: right after selectRepository(name), in every variant: name is selected,
\* no issue and no category is selected, IssueSet and TriageResult are empty.
C3_SelectClearsEverything ==
    ev.op = "select" =>
        /\ selectedRepo = ev.repo
        /\ selectedIssue = NullIssue
        /\ selectedCategory = NULL
        /\ issues = <<>>
        /\ importantIssues = <<>>
        /\ categorizedIssues = EmptyCategories

\* render shows an error for the issue list (no variant has such a branch)
ShowsFetchError == ListMessage = "Error fetching issues"

\* C4: when the Issue Gateway call of the current selection fails, the IssueSet
\* stays empty, the failure is shown to the user (state, not only a log line),
\* and no Triage Service call is issued for that selection.
C4_IssueFailureSurfaced ==
    (ev.op = "issuesFail" /\ ev.id = nextId - 1) =>
        /\ issues = <<>>
        /\ ShowsFetchError
        /\ \A c \in triageCalls : c.id # ev.id

\* C5: when the Triage Service call of the current selection fails for a
\* non-empty list L, the IssueSet is still L in fetch order and, with an empty
\* search, every issue of L is shown in the list section.
C5_TriageFailureKeepsListVisible ==
    (ev.op = "triageFail" /\ ev.id = nextId - 1 /\ RepoIssues(ev.repo) # <<>>) =>
        /\ issues = RepoIssues(ev.repo)
        /\ (ListSection /\ issueSearch = <<>>)
              => Range(RepoIssues(ev.repo)) \subseteq Range(VisibleIssues)

\* C6: when the Issue Gateway returns an empty list, no Triage Service call is
\* made for that selection, in any variant, and the TriageResult is empty.
C6_EmptyListNoTriageCall ==
    (ev.op = "issuesOk" /\ ev.id = nextId - 1 /\ RepoIssues(ev.repo) = <<>>) =>
        /\ \A c \in triageCalls : c.id # ev.id
        /\ importantIssues = <<>>
        /\ categorizedIssues = EmptyCategories

\* the issues of list matched by the k-th title of result (first occurrence)
matchedAt(list, result, k) ==
    LET hit(issue) == indexOf(result, issue.title) = k - 1
    IN  SelectSeq(list, hit)

RECURSIVE matchedFrom(_, _, _)
matchedFrom(list, result, k) ==
    IF k > Len(result) THEN <<>>
    ELSE matchedAt(list, result, k) \o matchedFrom(list, result, k + 1)

\* the stable partition: matched issues in result order, then the others in
\* their original order
StableOrder(list, result) ==
    LET unmatched(issue) == indexOf(result, issue.title) = -1
    IN  matchedFrom(list, result, 1) \o SelectSeq(list, unmatched)

\* C7: the order-form output is the stable partition of L by R: matched issues
\* first in R's order, unmatched issues after them in original relative order.
C7_OrderIsStablePartition ==
    rForm = "order" => rOut.order = StableOrder(rL, rR)

\* the titles of result that some issue of list carries, in result order
presentTitles(result, list) ==
    LET present(t) == \E i \in 1..Len(list) : list[i].title = t
    IN  SelectSeq(result, present)

\* C8: in partition form each category list holds issues of L only, carries
\* exactly the titles of R[label] that occur in L, in the order of R[label],
\* and an issue whose title is in no category is in no category list.
C8_PartitionFollowsResult ==
    rForm = "partition" =>
        /\ \A c \in Labels :
              /\ Range(rOut.categories[c]) \subseteq Range(rL)
              /\ titlesOf(rOut.categories[c]) = presentTitles(rCat[c], rL)
        /\ \A i \in 1..Len(rL) :
              (\A c \in Labels : rL[i].title \notin Range(rCat[c]))
                  => \A c \in Labels : rL[i] \notin Range(rOut.categories[c])

\* C8 witness: the example of the claim, L = [fix login, typo, crash on save]
\* and R = {Major: [crash on save], Minor: [typo], Bug: []}
C8_Witness ==
    /\ rForm = "partition"
    /\ titlesOf(rL) = <<TFix, TTypo, TCrash>>
    /\ rCat = [Major |-> <<TCrash>>, Minor |-> <<TTypo>>, Bug |-> <<>>]
    /\ rOut.categories = [Major |-> <<rL[3]>>, Minor |-> <<rL[2]>>, Bug |-> <<>>]

\* C9: two distinct issues with the same title are both matched by an
\* occurrence of that title, in every form; in partition form both are in the
\* category whose title sequence holds the title.
C9_DuplicateTitlesBothMatched ==
    /\ rForm = "partition" =>
          \A c \in Labels : \A i \in 1..Len(rL) :
              rL[i].title \in Range(rCat[c]) => rL[i] \in Range(rOut.categories[c])
    /\ rForm = "subset" =>
          \A i \in 1..Len(rL) :
              rL[i].title \in Range(rR) => rL[i] \in Range(rOut.important)
    /\ rForm = "order" =>
          \A i, j \in 1..Len(rOut.order) :
              (/\ rOut.order[i].title \in Range(rR)
               /\ rOut.order[j].title \notin Range(rR)) => i < j

\* the list keeps the order of L (harness ids are the positions in L)
InListOrder(list) == \A j, k \in 1..Len(list) : j < k => list[j].id < list[k].id

\* C10: in subset form with an empty search the view shows two groups, both in
\* L's order: important holds exactly the issues whose title is in S, remaining
\* exactly the others; every issue of L is in exactly one group.
C10_SubsetPartition ==
    (rForm = "subset" /\ rSearch = <<>>) =>
        /\ InListOrder(rOut.important) /\ InListOrder(rOut.remaining)
        /\ Range(rOut.important) \cup Range(rOut.remaining) = Range(rL)
        /\ Range(rOut.important) \cap Range(rOut.remaining) = {}
        /\ \A i \in 1..Len(rL) :
              rL[i] \in Range(rOut.important) <=> rL[i].title \in Range(rR)

\* C10 witness: a subset answer that splits a list into two non-empty groups
C10_Witness ==
    /\ rForm = "subset" /\ rSearch = <<>>
    /\ Len(rL) = 3
    /\ Len(rOut.important) = 2
    /\ Len(rOut.remaining) = 1

\* every issue list reconcile produced, whatever the form
ReconcileOutputs ==
    {rOut.order, rOut.important, rOut.remaining}
        \cup {rOut.categories[c] : c \in Labels}

\* the titles of the TriageResult given to reconcile, whatever the form
ResultTitles == Range(rR) \cup UNION {Range(rCat[c]) : c \in Labels}

\* C11: reconcile never fabricates: in order, subset and partition form every
\* issue of the reconciled output is an issue of L, so a title of R that no
\* issue of L carries contributes nothing to the output.
C11_ReconcileNeverFabricates ==
    rForm # "none" =>
        /\ \A out \in ReconcileOutputs : Range(out) \subseteq Range(rL)
        /\ \A t \in ResultTitles :
              t \notin Range(titlesOf(rL))
                  => \A out \in ReconcileOutputs : t \notin Range(titlesOf(out))

\* C11 witness: a partition answer naming a title that no issue of a
\* non-empty L carries, next to one that an issue of L does carry
C11_Witness ==
    /\ rForm = "partition"
    /\ \E t \in ResultTitles : t \notin Range(titlesOf(rL))
    /\ \E c \in Labels : rOut.categories[c] # <<>>

\* the sections of the page that render shows in the current state
ShownSections ==
    {sec \in {"prompt", "categoryList", "issueList", "issue"} :
        \/ sec = "prompt" /\ PromptSection
        \/ sec = "categoryList" /\ IsCategoryVariant(variant)
                                /\ ListSection /\ selectedCategory = NULL
        \/ sec = "issueList" /\ ListSection
                             /\ (IsCategoryVariant(variant) => selectedCategory # NULL)
        \/ sec = "issue" /\ IssueSection}

C13_BackReturnsToOrigin ==
    [][/\ handleBackToIssues =>
              /\ selectedIssue' = NullIssue
              /\ selectedCategory' = selectedCategory
              /\ selectedRepo' = selectedRepo
       /\ backToCategories =>
              /\ selectedCategory' = NULL
              /\ selectedIssue' = NullIssue]_vars

\* C14: while any Command Gateway call is in flight the result area is
\* pending (isThinking), also when two submissions overlap and one of them has
\* completed; pending ends only when no command call is in flight.
C14_PendingWhileInFlight ==
    commands # {} => isThinking

\* C15: last-resolved-wins: when overlapping submissions succeed, then once
\* all of them have completed the result area is not pending and shows the
\* response of the call that resolved last.
C15_LastResolvedWins ==
    (ev.op = "cmdOk" /\ commands = {}) =>
        /\ ~isThinking
        /\ pyOutput.kind = "reply"
        /\ pyOutput.cmd = ev.id

\* C15 witness: two overlapping submissions, both answered, the first
\* submitted being the last resolved
C15_Witness ==
    /\ ev.op = "cmdOk" /\ commands = {}
    /\ failed = {}
    /\ nextCommand = 3
    /\ ev.id = 1
    /\ pyOutput.cmd = 1

\* C16: a superseded command result is never displayed after a newer one: when
\* the result of a later submission is displayed, the delivery of an earlier
\* submission's response does not replace it.
C16_SupersededResultNotDisplayed ==
    [][(ev'.op = "cmdOk" /\ pyOutput.kind # "empty" /\ pyOutput.cmd > ev'.id)
          => pyOutput' = pyOutput]_vars

\* C17: when a Command Gateway call fails (unreachable, or non-success
\* status) the result area shows a non-empty failure text of that call, not
\* the empty string and not an earlier result.
C17_CommandFailureSurfaced ==
    /\ ev.op = "cmdFail" =>
          (pyOutput.kind = "failure" /\ pyOutput.cmd = ev.id)
    /\ ev.op = "cmdStatus" =>
          (pyOutput.kind = "errorBody" /\ pyOutput.cmd = ev.id)

\* C18: once the Issue Gateway has answered the current selection with an
\* empty list and no request is in flight, the list section shows no item and
\* an explicit empty state, not a loading state, in every variant.
C18_EmptyListShowsEmptyState ==
    (/\ tasks = {} /\ failed = {}
     /\ nextId = 2
     /\ selectedRepo # NULL /\ RepoIssues(selectedRepo) = <<>>
     /\ ListSection) =>
        /\ VisibleIssues = <<>>
        /\ ListMessage # "Loading issues"
        /\ ~issuesLoading

\* C19: a CommandResult belongs to one issue: the result area of the issue
\* view never shows a result obtained for another issue than the one shown.
C19_ResultBelongsToShownIssue ==
    (IssueSection /\ ~isThinking /\ pyOutput.kind # "empty")
        => pyOutput.issue = selectedIssue.id

\* C20: within one repository selection the Issue Gateway call precedes the
\* Triage Service call: a triage call is issued only in the step that receives
\* the Issue Gateway response of the same invocation, and the titles it sends
\* are the titles of that response.
C20_TriageAfterIssueResponse ==
    [][triageCalls' # triageCalls =>
          /\ ev'.op = "issuesOk"
          /\ \E t \in tasks : t.id = ev'.id /\ t.repo = ev'.repo /\ t.pc = "issues"
          /\ triageCalls' = triageCalls \cup
                 {[id |-> ev'.id, titles |-> titlesOf(RepoIssues(ev'.repo))]}]_vars

\* C20 witness: two overlapping selections of different non-empty
\* repositories, each having issued its triage call with its own titles
C20_Witness ==
    /\ ev.op = "issuesOk"
    /\ Cardinality(triageCalls) = 2
    /\ \E c, d \in triageCalls :
          /\ c.id = 1 /\ d.id = 2
          /\ c.titles # <<>> /\ d.titles # <<>>
          /\ c.titles # d.titles

\* C21: with no token in the URL and none in the store, no gateway call is
\* ever issued: the repository list is not fetched, once the mount effect has
\* run the login prompt is shown, and no selectRepository and no
\* submitCommand has been triggered.
C21_NoCallWithoutCredential ==
    (~Truthy(urlToken) /\ ~Truthy(storedToken)) =>
        /\ token = NULL
        /\ bootPc # "fetching" /\ repos = <<>>
        /\ nextId = 1 /\ tasks = {} /\ triageCalls = {}
        /\ nextCommand = 1 /\ commands = {}
        /\ selectedRepo = NULL
        /\ bootPc # "mount" => LoginPromptShown

\* C21 witness: the mount effects have run without any credential
C21_Witness ==
    /\ ~Truthy(urlToken) /\ ~Truthy(storedToken)
    /\ bootPc = "idle"
    /\ LoginPromptShown

\* C22: credential bootstrap on first load: a token in the URL becomes the
\* in-memory credential, is written to the store over any stored value and is
\* removed from the location; otherwise a stored value becomes the credential;
\* either way the in-memory credential equals the stored value afterwards, and
\* stays equal to it.
C22_CredentialBootstrap ==
    [][/\ (bootPc = "mount" /\ bootPc' # "mount") =>
              IF Truthy(urlToken)
              THEN token' = urlToken /\ storedToken' = urlToken /\ urlToken' = NULL
              ELSE /\ storedToken' = storedToken
                   /\ token' = storedToken
       /\ bootPc' # "mount" => token' = storedToken']_vars

\* C22 witness: a URL token has replaced a different stored one
C22_Witness ==
    /\ ev.op = "boot"
    /\ token = UrlTokenValue
    /\ storedToken = UrlTokenValue
    /\ urlToken = NULL
    /\ UrlTokenValue # StoredTokenValue

\* what a pure view-state transition must leave alone: the selected
\* repository, the IssueSet, the TriageResult, the command result, the pending
\* flags, and the calls in flight or issued
BeyondSelection ==
    <<selectedRepo, issues, importantIssues, categorizedIssues, pyOutput,
      isThinking, issuesLoading, loading, tasks, triageCalls, nextId, commands,
      nextCommand>>

\* C23: selectCategory, selectIssue and back are pure view-state transitions:
\* none of them issues a network call, and each leaves the selected
\* repository, the IssueSet, the TriageResult, the command result and the
\* pending flags unchanged.
C23_ViewTransitionsArePure ==
    [][(SelectIssue \/ Back \/ SelectCategory \/ BackToCategories)
          => UNCHANGED BeyondSelection]_vars

\* C23 witness: an issue is opened while a command result is displayed and
\* another command call and a triage call are in flight
C23_Witness ==
    /\ ev.op = "issueClick"
    /\ pyOutput.kind # "empty"
    /\ commands # {}
    /\ tasks # {}

\* the state of the triage pipeline and of the Selection
TriageSide ==
    <<selectedRepo, issues, importantIssues, categorizedIssues, selectedIssue,
      selectedCategory>>

\* C24: the command path and the triage pipeline are independent: issuing or
\* completing a Command Gateway call (success or failure) leaves the selected
\* repository, IssueSet, TriageResult and Selection unchanged, and the delivery
\* of an Issue Gateway or Triage Service response leaves the command result
\* and the command pending flag unchanged.
C24_CommandAndTriageIndependent ==
    [][/\ (SubmitCommand \/ CommandGatewayOk \/ CommandGatewayFail)
              => UNCHANGED TriageSide
       /\ (\/ IssueGatewayOk \/ IssueGatewayFail \/ TriageImportantOk
           \/ TriageSortOk \/ TriageCategorizeOk \/ TriageServiceFail)
              => UNCHANGED <<pyOutput, isThinking>>]_vars

\* C24 witness: a Triage Service response is delivered while a command call
\* is pending
C24_Witness ==
    /\ ev.op = "triageOk"
    /\ isThinking
    /\ commands # {}

\* the Issue Gateway fetches in flight
IssueFetches(ts) == {t \in ts : t.pc = "issues"}

\* C25: each selectRepository invocation issues exactly one Issue Gateway
\* fetch (and no other step issues one) and at most one Triage Service call,
\* whose body is exactly the sequence of the titles of the fetched issues in
\* fetch order: strings only, no issue record.
C25_OneFetchOneTriageCall ==
    [][/\ \A r \in Repos : handleRepoClick(r) =>
              /\ IssueFetches(tasks') = IssueFetches(tasks) \cup
                                           {Task(nextId, r, "issues", <<>>)}
              /\ \A t \in tasks : t.id # nextId
              /\ triageCalls' = triageCalls
       /\ ~SelectRepository => IssueFetches(tasks') \subseteq IssueFetches(tasks)
       /\ Cardinality(triageCalls' \ triageCalls) <= 1
       /\ \A c \in triageCalls' \ triageCalls :
              /\ \A d \in triageCalls : d.id # c.id
              /\ c.id = ev'.id /\ ev'.op = "issuesOk"
              /\ IssueFetches(tasks') = IssueFetches(tasks) \
                                           {Task(c.id, ev'.repo, "issues", <<>>)}
              /\ c.titles = [i \in 1..Len(RepoIssues(ev'.repo)) |->
                                 RepoIssues(ev'.repo)[i].title]
              /\ \A i \in 1..Len(c.titles) : c.titles[i] \in Titles]_vars

\* C25 witness: the triage call of the last selection carries two different
\* titles, so their order shows
C25_Witness ==
    /\ ev.op = "issuesOk"
    /\ \E c \in triageCalls :
          /\ c.id = ev.id
          /\ Len(c.titles) = 2
          /\ c.titles[1] # c.titles[2]
    /\ Cardinality(triageCalls) = 1

\* C26: each submitCommand issues exactly one Command Gateway call at once,
\* carrying the current text (also when empty) and the currently selected
\* issue, also while an earlier submission is pending: the new call is in
\* flight next to the earlier ones, which stay in flight; no other step
\* issues a command call.
C26_SubmitSendsOneCallAtOnce ==
    [][/\ SubmitCommand =>
              /\ \A c \in commands : c.id # nextCommand
              /\ commands' = commands \cup
                     {[id |-> nextCommand, command |-> aiTextBox,
                       issue |-> selectedIssue]}
              /\ selectedIssue # NullIssue
       /\ ~SubmitCommand => commands' \subseteq commands]_vars

\* C26 witness: a submission with an empty text made while an earlier one
\* with a text is pending; both calls are in flight
C26_Witness ==
    /\ ev.op = "submit"
    /\ Cardinality(commands) = 2
    /\ \E c, d \in commands :
          /\ c.id < d.id
          /\ c.command # <<>>
          /\ d.command = <<>>

\* C27: a failure of the repository-list fetch (the gateway unreachable, or a
\* non-success status) is caught at the call site: afterwards loading is
\* false, the repository set is unchanged (empty), no error has propagated
\* uncaught and the page is usable, showing an empty repository list.
C27_ReposFailureCaught ==
    ev.op \in {"reposFail", "reposStatus"} =>
        /\ ~loading
        /\ repos = <<>>
        /\ ~crashed
        /\ PageShown

\* the issue lists of the triage view
TriageViewLists == {importantIssues} \cup {categorizedIssues[c] : c \in Labels}

C29_SortIsPermutation ==
    [][ReconcileOrder =>
          /\ Len(rOut'.order) = Len(rL)
          /\ \A i \in 1..Len(rL) :
                Cardinality({k \in 1..Len(rOut'.order) : rOut'.order[k] = rL[i]}) = 1
          /\ rL' = rL]_vars

\* C29 witness: a list with a repeated title, reordered by a response that
\* also names a title no issue carries
C29_Witness ==
    /\ rForm = "order"
    /\ Len(rL) = 3
    /\ rL[1].title = rL[2].title
    /\ rOut.order # rL
    /\ \E t \in Range(rR) : t \notin Range(titlesOf(rL))

\* C30: in the subset variant issuesLoading is true in every state in which a
\* request (issue fetch or triage call) of the current selection is in flight,
\* also when an earlier, overlapping selection's request completes or fails
\* first.
C30_LoadingWhileCurrentInFlight ==
    (variant = "subset" /\ \E t \in tasks : t.id = nextId - 1 /\ t.repo = selectedRepo)
        => issuesLoading

\* no pending flag is set
NoPendingFlag == ~isThinking /\ ~issuesLoading /\ ~loading

\* no effect is pending and no request is in flight
Quiescent == bootPc = "idle" /\ tasks = {} /\ commands = {}

\* C31: settling: when every request in flight eventually completes, with
\* success or failure, the system eventually reaches a state with no pending
\* flag set (isThinking, issuesLoading, loading all false) and stays there
\* once the user issues no further operation; whenever nothing is in flight
\* no flag is set, so no failure leaves a flag stuck.
C31_Settles ==
    /\ [](Quiescent => NoPendingFlag)
    /\ <>[](Quiescent /\ NoPendingFlag)

\* C31 witness: everything has completed after a failed issue fetch or triage
\* call and a failed command call in the subset variant
C31_Witness ==
    /\ variant = "subset"
    /\ Quiescent /\ NoPendingFlag
    /\ \E f \in failed : f.kind = "command"
    /\ \E f \in failed : f.kind \in {"issues", "triage"}

=============================================================================
